---- MODULE Spec2Model ----
\* Model of src/components/App.tsx (pomoday): the command parser, the task
\* state machine driven by onKeyPress, and the persistence effect.
EXTENDS Integers, Sequences, FiniteSets, TLC

\* ---------------------------------------------------------------- bounds
\* Date.now() is read at most MaxTime timer intervals after the page was opened.
MaxTime == 2
\* The task list holds at most MaxTasks tasks (the task command is capped).
MaxTasks == 2
\* The history of assigned ids records at most MaxCreated task commands.
MaxCreated == 3
\* A task's logs hold at most MaxLogs entries (begin is capped).
MaxLogs == 2

\* ---------------------------------------------------------------- time
\* The delay of the interval timer, in milliseconds. Time is observed in whole
\* delays: key presses and timer callbacks fall on the same boundaries.
Delay == 1000

\* ---------------------------------------------------------------- text
\* A string is a sequence of one-character strings.
UpperCase == <<"A","B","C","D","E","F","G","H","I","J","K","L","M",
               "N","O","P","Q","R","S","T","U","V","W","X","Y","Z">>
LowerCase == <<"a","b","c","d","e","f","g","h","i","j","k","l","m",
               "n","o","p","q","r","s","t","u","v","w","x","y","z">>
Digits == <<"0","1","2","3","4","5","6","7","8","9">>

Range(s) == { s[i] : i \in DOMAIN s }

\* String.prototype.toLowerCase, one character.
toLowerCase(c) ==
  IF \E i \in DOMAIN UpperCase : UpperCase[i] = c
    THEN LowerCase[CHOOSE i \in DOMAIN UpperCase : UpperCase[i] = c]
    ELSE c

\* toLowerCase of a whole string.
toLowerCaseStr(s) == [ i \in DOMAIN s |-> toLowerCase(s[i]) ]

\* The regex class \s (the whitespace an input line can hold).
IsSpace(c) == c \in {" ", "\t"}

\* The regex class \d.
IsDigit(c) == c \in Range(Digits)

\* The regex class [0-9a-zA-Z'-].
IsTagChar(c) == c \in Range(Digits) \cup Range(LowerCase) \cup Range(UpperCase) \cup {"'", "-"}

\* String.prototype.trim.
trim(s) ==
  LET keep == { i \in DOMAIN s : ~IsSpace(s[i]) } IN
  IF keep = {} THEN <<>>
  ELSE LET lo == CHOOSE i \in keep : \A j \in keep : i <= j
           hi == CHOOSE i \in keep : \A j \in keep : j <= i
       IN SubSeq(s, lo, hi)

\* The value of one decimal digit.
DigitValue(c) == (CHOOSE i \in DOMAIN Digits : Digits[i] = c) - 1

\* parseInt of a string of decimal digits.
RECURSIVE parseInt(_)
parseInt(s) ==
  IF s = <<>> THEN 0
  ELSE 10 * parseInt(SubSeq(s, 1, Len(s) - 1)) + DigitValue(s[Len(s)])

\* ---------------------------------------------------------------- regexes
\* Whether str starts with word, ignoring case (the /i flag).
StartsWithCI(str, word) ==
  /\ Len(str) >= Len(word)
  /\ \A i \in DOMAIN word : toLowerCase(str[i]) = word[i]

\* ^(verb)\s : the length of the first alternative of alts that str starts
\* with and that one whitespace character follows; 0 when there is none.
VerbLen(str, alts) ==
  LET ok == { k \in DOMAIN alts :
                /\ StartsWithCI(str, alts[k])
                /\ Len(str) > Len(alts[k])
                /\ IsSpace(str[Len(alts[k]) + 1]) } IN
  IF ok = {} THEN 0
  ELSE Len(alts[CHOOSE k \in ok : \A j \in ok : k <= j])

\* (\d+) at position from: the length of the longest run of digits there.
DigitsLen(str, from) ==
  LET stop == { i \in from..Len(str) : ~IsDigit(str[i]) } IN
  IF stop = {} THEN Len(str) - from + 1
  ELSE (CHOOSE i \in stop : \A j \in stop : i <= j) - from

\* (@(?:\S*['-]?)(?:[0-9a-zA-Z'-]+)) at position from: the length of the match,
\* 0 when the group does not match. \S* is greedy and gives back characters
\* until a tag character follows, so the match ends at the last tag character of
\* the run of non-space characters after the @.
TagLen(str, from) ==
  IF from > Len(str) \/ str[from] # "@" THEN 0
  ELSE LET sp == { i \in (from + 1)..Len(str) : IsSpace(str[i]) }
           runEnd == IF sp = {} THEN Len(str)
                     ELSE (CHOOSE i \in sp : \A j \in sp : i <= j) - 1
           tc == { i \in (from + 1)..runEnd : IsTagChar(str[i]) }
       IN IF tc = {} THEN 0
          ELSE (CHOOSE i \in tc : \A j \in tc : j <= i) - from + 1

\* The result of String.prototype.match: matched, and groups 1..3 (a group that
\* did not take part is the empty string, which the code treats alike).
NoMatch == [ matched |-> FALSE, g1 |-> <<>>, g2 |-> <<>>, g3 |-> <<>> ]

\* /^(t(?:ask)?)\s(@(?:\S*['-]?)(?:[0-9a-zA-Z'-]+))?(.*)/i
parseTaskCommand(str) ==
  LET v == VerbLen(str, << <<"t","a","s","k">>, <<"t">> >>)
      t == TagLen(str, v + 2)
  IN IF v = 0 THEN NoMatch
     ELSE [ matched |-> TRUE,
            g1 |-> SubSeq(str, 1, v),
            g2 |-> SubSeq(str, v + 2, v + 1 + t),
            g3 |-> SubSeq(str, v + 2 + t, Len(str)) ]

\* /^(e(?:dit)?)\s(\d+)(.*)/i
parseEditCommand(str) ==
  LET v == VerbLen(str, << <<"e","d","i","t">>, <<"e">> >>)
      d == DigitsLen(str, v + 2)
  IN IF v = 0 \/ d = 0 THEN NoMatch
     ELSE [ matched |-> TRUE,
            g1 |-> SubSeq(str, 1, v),
            g2 |-> SubSeq(str, v + 2, v + 1 + d),
            g3 |-> SubSeq(str, v + 2 + d, Len(str)) ]

\* /^(mv|move)\s(\d+)\s(@(?:\S*['-]?)(?:[0-9a-zA-Z'-]+))/i
parseMoveCommand(str) ==
  LET v == VerbLen(str, << <<"m","v">>, <<"m","o","v","e">> >>)
      d == DigitsLen(str, v + 2)
      p == v + 2 + d
      t == TagLen(str, p + 1)
  IN IF v = 0 \/ d = 0 \/ p > Len(str) \/ ~IsSpace(str[p]) \/ t = 0 THEN NoMatch
     ELSE [ matched |-> TRUE,
            g1 |-> SubSeq(str, 1, v),
            g2 |-> SubSeq(str, v + 2, v + 1 + d),
            g3 |-> SubSeq(str, p + 1, p + t) ]

\* /^(verb)\s(\d+)/i for the verbs that take only an id.
parseIdCommand(str, alts) ==
  LET v == VerbLen(str, alts)
      d == DigitsLen(str, v + 2)
  IN IF v = 0 \/ d = 0 THEN NoMatch
     ELSE [ matched |-> TRUE,
            g1 |-> SubSeq(str, 1, v),
            g2 |-> SubSeq(str, v + 2, v + 1 + d),
            g3 |-> <<>> ]

\* /^(c(?:heck)?)\s(\d+)/i
parseCheckCommand(str) == parseIdCommand(str, << <<"c","h","e","c","k">>, <<"c">> >>)
\* /^(b(?:egin)?)\s(\d+)/i
parseBeginCommand(str) == parseIdCommand(str, << <<"b","e","g","i","n">>, <<"b">> >>)
\* /^(d(?:elete)?)\s(\d+)/i
parseDeleteCommand(str) == parseIdCommand(str, << <<"d","e","l","e","t","e">>, <<"d">> >>)
\* /^(fl(?:ag)?)\s(\d+)/i
parseFlagCommand(str) == parseIdCommand(str, << <<"f","l","a","g">>, <<"f","l">> >>)
\* /^(st(?:op)?)\s(\d+)/i
parseStopCommand(str) == parseIdCommand(str, << <<"s","t","o","p">>, <<"s","t">> >>)

\* /^(close-help|help|today)/i
parseOtherCommand(str) ==
  LET alts == << <<"c","l","o","s","e","-","h","e","l","p">>,
                 <<"h","e","l","p">>, <<"t","o","d","a","y">> >>
      ok == { k \in DOMAIN alts : StartsWithCI(str, alts[k]) }
  IN IF ok = {} THEN NoMatch
     ELSE [ matched |-> TRUE,
            g1 |-> SubSeq(str, 1, Len(alts[CHOOSE k \in ok : \A j \in ok : k <= j])),
            g2 |-> <<>>, g3 |-> <<>> ]

\* ---------------------------------------------------------------- parseCommand
\* A Command; a field the code leaves out is the empty string / NoId.
NoId == -1
Null == [ command |-> <<>>, id |-> NoId, tag |-> <<>>, text |-> <<>> ]

parseCommand(input) ==
  LET matchTask == parseTaskCommand(input)
      matchEdit == parseEditCommand(input)
      matchMove == parseMoveCommand(input)
      matchCheck == parseCheckCommand(input)
      matchBegin == parseBeginCommand(input)
      matchDelete == parseDeleteCommand(input)
      matchFlag == parseFlagCommand(input)
      matchStop == parseStopCommand(input)
      matchOther == IF matchCheck.matched THEN matchCheck
                    ELSE IF matchBegin.matched THEN matchBegin
                    ELSE IF matchDelete.matched THEN matchDelete
                    ELSE IF matchFlag.matched THEN matchFlag
                    ELSE matchStop
      matchHelp == parseOtherCommand(input)
  IN IF matchTask.matched
       THEN [ command |-> matchTask.g1, id |-> NoId,
              tag |-> matchTask.g2, text |-> trim(matchTask.g3) ]
     ELSE IF matchEdit.matched
       THEN [ command |-> matchEdit.g1, id |-> parseInt(matchEdit.g2),
              tag |-> <<>>, text |-> trim(matchEdit.g3) ]
     ELSE IF matchMove.matched
       THEN [ command |-> matchMove.g1, id |-> parseInt(matchMove.g2),
              tag |-> matchMove.g3, text |-> <<>> ]
     ELSE IF matchOther.matched
       THEN [ command |-> matchOther.g1, id |-> parseInt(matchOther.g2),
              tag |-> <<>>, text |-> <<>> ]
     ELSE IF matchHelp.matched
       THEN [ command |-> matchHelp.g1, id |-> NoId, tag |-> <<>>, text |-> <<>> ]
     ELSE Null

\* ---------------------------------------------------------------- input lines
\* The lines typed into the input box, one per Enter key press.
\* "t @work Write spec"
LineTaskWork == <<"t"," ","@","w","o","r","k"," ","W","r","i","t","e"," ","s","p","e","c">>
\* "t fix"
LineTaskFix == <<"t"," ","f","i","x">>
\* "t @work"
LineTaskEmpty == <<"t"," ","@","w","o","r","k">>
\* "t  " (the text is one space)
LineTaskBlank == <<"t"," "," ">>
\* "b 1"
LineBegin1 == <<"b"," ","1">>
\* "begin 2"
LineBegin2 == <<"b","e","g","i","n"," ","2">>
\* "c 1"
LineCheck1 == <<"c"," ","1">>
\* "d 1"
LineDelete1 == <<"d"," ","1">>
\* "delete 2"
LineDelete2 == <<"d","e","l","e","t","e"," ","2">>
\* "fl 1"
LineFlag1 == <<"f","l"," ","1">>
\* "st 1"
LineStop1 == <<"s","t"," ","1">>
\* "e 1 fix"
LineEdit1 == <<"e"," ","1"," ","f","i","x">>
\* "edit 1"
LineEditEmpty == <<"e","d","i","t"," ","1">>
\* "mv 1 @work"
LineMove1 == <<"m","v"," ","1"," ","@","w","o","r","k">>
\* "help"
LineHelp == <<"h","e","l","p">>
\* "close-help"
LineCloseHelp == <<"c","l","o","s","e","-","h","e","l","p">>
\* "today"
LineToday == <<"t","o","d","a","y">>
\* "b"
LineNull == <<"b">>

Lines == { LineTaskWork,
           LineTaskFix,
           LineTaskEmpty,
           LineTaskBlank,
           LineBegin1,
           LineBegin2,
           LineCheck1,
           LineDelete1,
           LineDelete2,
           LineFlag1,
           LineStop1,
           LineEdit1,
           LineEditEmpty,
           LineMove1,
           LineHelp,
           LineCloseHelp,
           LineToday,
           LineNull }

\* An Enter key press: the line in the input box, parseCommand of it, and
\* cmd.command.toLowerCase(), the value the switch tests; listed tells whether
\* the line is one of Lines.
KeyPress(input) ==
  [ input |-> input,
    cmd |-> parseCommand(input),
    label |-> toLowerCaseStr(parseCommand(input).command),
    listed |-> input \in Lines ]

KeyPresses == { KeyPress(input) : input \in Lines }

\* Lines whose id is not a decimal number: letters, a sign, digits with
\* other characters right after them.
MalformedIds == { <<"x">>, <<"-","1">>, <<"1","a","b","c">> }

\* What follows the id in a line of each verb that reads an id.
IdVerbs == { [ verb |-> <<"e">>, rest |-> <<" ","f","i","x">> ],
             [ verb |-> <<"m","v">>, rest |-> <<" ","@","w","o","r","k">> ],
             [ verb |-> <<"c">>, rest |-> <<>> ],
             [ verb |-> <<"b">>, rest |-> <<>> ],
             [ verb |-> <<"d">>, rest |-> <<>> ],
             [ verb |-> <<"f","l">>, rest |-> <<>> ],
             [ verb |-> <<"s","t">>, rest |-> <<>> ] }

MalformedLines ==
  { v.verb \o <<" ">> \o id \o v.rest : v \in IdVerbs, id \in MalformedIds }

MalformedKeyPresses == { KeyPress(input) : input \in MalformedLines }

AllKeyPresses == KeyPresses \cup MalformedKeyPresses

\* ---------------------------------------------------------------- state
VARIABLES
  state,     \* the React state {tasks, showHelp, showToday}
  storage,   \* localStorage item 'pomoday'
  now,       \* Date.now()
  history,   \* which part of its past this run records (fixed by Init)
  assigned,  \* history "ids": the ids given by the task commands, in order
  last,      \* the last key press, when history selects its command: the case
             \*   label, the id, the target's status before, and whether
             \*   setState was called (so that the persist effect ran)
  scen,      \* history "scenario": how much of the end-to-end scenario the run
             \*   has followed, -1 once it has left it
  rows       \* history "view": the TimeSpent instances on screen, by the key of
             \*   their Row: the counter and the delay of the interval timer

vars == << state, storage, now, history, assigned, last, scen, rows >>

\* enum TaskStatus
TaskStatus == { "NONE", "DONE", "WIP", "WAIT", "FLAG" }

\* JSON.stringify of the state, as stored by the persist effect.
Stringify(s) == [ kind |-> "json", value |-> s ]

\* What localStorage.getItem returns: null for no item, else a text, which is
\* the JSON text of a value or is no JSON at all.
AbsentItem == [ kind |-> "absent" ]
\* ""
EmptyText == [ kind |-> "text", chars |-> <<>> ]
\* "{"
BrokenText == [ kind |-> "text", chars |-> <<"{">> ]

\* JSON values that are no State: null, 0 and {}.
JsonNull == [ type |-> "null" ]
JsonZero == [ type |-> "number", digits |-> <<"0">> ]
JsonEmptyObject == [ type |-> "object" ]

\* JSON.parse: the value of a JSON text; any other text throws.
Parse(item) ==
  IF item.kind = "json"
    THEN [ threw |-> FALSE, value |-> item.value ]
    ELSE [ threw |-> TRUE, value |-> JsonNull ]

\* The values an if takes for false, among the JSON values above.
Falsy(v) == v \in { JsonNull, JsonZero }

\* The state getInitialState returns when it does not return the stored one.
DefaultState == [ tasks |-> <<>>, showHelp |-> TRUE, showToday |-> FALSE ]

getInitialState(saved) ==
  IF saved = AbsentItem \/ saved = EmptyText
    THEN DefaultState
    ELSE LET parsed == Parse(saved) IN
         IF ~parsed.threw /\ ~Falsy(parsed.value)
           THEN parsed.value
           ELSE DefaultState

\* Whether App renders this state: the render calls state.tasks.reduce, which
\* throws when the state has no tasks.
Rendered(s) == "tasks" \in DOMAIN s

\* ---------------------------------------------------------------- TimeSpent
\* A number of seconds x / 1000, for a whole number x: the seconds and the
\* thousandths that remain.
Seconds(x) == [ s |-> x \div 1000, ms |-> x % 1000 ]

\* Variant of totalTime: an open Worklog adds nothing.
RECURSIVE totalTimeClosedOnly(_, _)
totalTimeClosedOnly(logs, at) ==
  IF logs = <<>> THEN 0
  ELSE LET log == logs[Len(logs)] IN
       totalTimeClosedOnly(SubSeq(logs, 1, Len(logs) - 1), at)
         + (IF log.end # 0 THEN log.end - log.start ELSE 0)

\* The reduce of totalTime over (task.logs || []), before the division; at is
\* Date.now().
RECURSIVE totalTime(_, _)
totalTime(logs, at) ==
  IF logs = <<>> THEN 0
  ELSE LET log == logs[Len(logs)] IN
       totalTime(SubSeq(logs, 1, Len(logs) - 1), at)
         + (IF log.end # 0 THEN log.end - log.start ELSE at - log.start)

\* The tags of taskGroups as Object.keys lists them: in the order of their
\* first task.
GroupTags(tasks) ==
  LET firsts == { i \in DOMAIN tasks :
                    \A j \in 1..(i - 1) : tasks[j].tag # tasks[i].tag } IN
  [ g \in 1..Cardinality(firsts) |->
      tasks[CHOOSE i \in firsts : Cardinality({ j \in firsts : j <= i }) = g].tag ]

\* taskGroups: for each tag, its tasks in the order of the list.
taskGroups(tasks) ==
  LET tags == GroupTags(tasks) IN
  [ g \in DOMAIN tags |->
      LET inGroup(t) == t.tag = tags[g] IN SelectSeq(tasks, inGroup) ]

\* The keys of the task rows of these groups, tag-i-inner-task-j, as pairs
\* (counted from 1).
KeysOf(groups) ==
  UNION { { << g, j >> : j \in DOMAIN groups[g] } : g \in DOMAIN groups }

Keys(tasks) == KeysOf(taskGroups(tasks))

\* The task shown by the row with this key.
TaskAt(tasks, key) == taskGroups(tasks)[key[1]][key[2]]

\* The delay TimeSpent passes to useInterval.
delay(task) == IF task.status = "WIP" THEN Delay ELSE 0

\* The render of the task rows at time at: a row whose key was on screen keeps
\* its TimeSpent instance and so its counter; a new key mounts a new instance,
\* whose counter starts at totalTime / 1000; an instance whose key is gone is
\* unmounted. The effect of useInterval follows the delay.
Render(old, tasks, at) ==
  LET groups == taskGroups(tasks) IN
  [ key \in KeysOf(groups) |->
      LET task == groups[key[1]][key[2]] IN
      [ counter |-> IF key \in DOMAIN old
                      THEN old[key].counter
                      ELSE Seconds(totalTime(task.logs, at)),
        delay |-> delay(task) ] ]

\* No row on screen.
NoRows == << >>

\* Whether this run follows the rows.
Viewed == history = "view"

\* Variant of tick: the callback runs whatever the delay.
tickAlways(row) == [ row EXCEPT !.counter.s = @ + 1 ]

\* The callback of useInterval, run by the timer once per delay when the delay
\* is not 0: setCounter(counter + 1).
tick(row) ==
  IF row.delay # 0 THEN [ row EXCEPT !.counter.s = @ + 1 ] ELSE row

\* ---------------------------------------------------------------- Today
\* Math.abs
Abs(x) == IF x < 0 THEN -x ELSE x

isSameDay(a, b) == Abs(a - b) <= 86400000

\* Variant of done: the test for the final log is missing.
doneAnyLog(t, l, id) == l.end # 0 /\ t.status = "DONE"

\* The done flag of the entry of log l, the id-th of task t (counted from 1, so
\* the final log is the one at t.logs.length).
done(t, l, id) == l.end # 0 /\ id = Len(t.logs) /\ t.status = "DONE"

\* The entries of one task: its logs that have a start within a day of at.
works(t, at) ==
  LET kept == { id \in DOMAIN t.logs :
                  t.logs[id].start # 0 /\ isSameDay(at, t.logs[id].start) } IN
  [ n \in 1..Cardinality(kept) |->
      LET id == CHOOSE i \in kept : Cardinality({ j \in kept : j <= i }) = n
          l == t.logs[id] IN
      [ task |-> t.title, start |-> l.start, end |-> l.end, done |-> done(t, l, id) ] ]

\* The entries of all tasks, in the order of the tasks.
RECURSIVE concatWorks(_, _)
concatWorks(tasks, at) ==
  IF tasks = <<>> THEN <<>>
  ELSE concatWorks(SubSeq(tasks, 1, Len(tasks) - 1), at) \o works(tasks[Len(tasks)], at)

\* Array.prototype.sort by start; entries with equal starts keep their order.
sortByStart(entries) ==
  LET before(a, b) ==
        \/ entries[a].start < entries[b].start
        \/ entries[a].start = entries[b].start /\ a < b
      rank(a) == Cardinality({ b \in DOMAIN entries : before(b, a) }) + 1
  IN [ n \in DOMAIN entries |-> entries[CHOOSE a \in DOMAIN entries : rank(a) = n] ]

\* The list of Today.
today(tasks, at) == sortByStart(concatWorks(tasks, at))

\* ---------------------------------------------------------------- Init
\* The value of last when the last key press is not recorded.
NoLast ==
  [ command |-> <<>>, id |-> NoId, pre |-> "NONE", installed |-> TRUE,
    input |-> <<>> ]

\* State after construction, for a page opened at time c.at with c.item in
\* localStorage: useState(getInitialState()) and the first render. The persist
\* effect of that render has not run yet.
InitFrom(h, cases) ==
  \E c \in cases :
    /\ storage = c.item
    /\ state = getInitialState(c.item)
    /\ now = c.at
    /\ history = h
    /\ assigned = <<>>
    /\ last = NoLast
    /\ scen = 0
    /\ rows = IF h = "view" /\ Rendered(getInitialState(c.item))
                THEN Render(NoRows, getInitialState(c.item).tasks, c.at)
                ELSE NoRows

\* A page opened for the first time: nothing is stored.
FirstVisit == [ item |-> AbsentItem, at |-> Delay ]

InitWith(h) == InitFrom(h, { FirstVisit })

Init == InitWith("none")

\* ---------------------------------------------------------------- helpers
\* Variant of MapTarget: the test of the id is missing, every task is replaced.
MapAll(tasks, id, updated) == [ i \in DOMAIN tasks |-> updated[i] ]

\* Array.prototype.map over the tasks: the tasks whose id is id are replaced by
\* what the callback makes of them (updated[i] for tasks[i]), the others kept.
MapTarget(tasks, id, updated) ==
  [ i \in DOMAIN tasks |-> IF tasks[i].id = id THEN updated[i] ELSE tasks[i] ]

\* Variant of Without: removes the task at position id, not the task with id id.
WithoutAt(tasks, id) ==
  [ i \in 1..(Len(tasks) - (IF id \in DOMAIN tasks THEN 1 ELSE 0)) |->
      IF i < id THEN tasks[i] ELSE tasks[i + 1] ]

\* The reduce of the delete case: the tasks whose id is not id, in order.
Without(tasks, id) ==
  LET keep(t) == t.id # id IN SelectSeq(tasks, keep)

\* Variant of MaxId: the comparison of the reduce is reversed, so the
\* accumulator never leaves 0.
MaxIdReversed(tasks) ==
  LET ids == { tasks[i].id : i \in DOMAIN tasks } \cup {0} IN
  CHOOSE m \in ids : \A n \in ids : m <= n

\* The reduce of the task case: the largest id, 0 for no task.
MaxId(tasks) ==
  LET ids == { tasks[i].id : i \in DOMAIN tasks } \cup {0} IN
  CHOOSE m \in ids : \A k \in ids : k <= m

\* Variant of stopWorkLogging: the last entry's end is set even when it was
\* already set.
stopWorkLoggingOverwrite(t) ==
  IF Len(t.logs) > 0
    THEN [ t EXCEPT !.logs[Len(t.logs)].end = now ]
    ELSE [ t EXCEPT !.logs = << [ start |-> now, end |-> now ] >> ]

\* Variant of stopWorkLogging: a zero-length entry is appended whenever no
\* entry is open, not only when there is no entry.
stopWorkLoggingAppend(t) ==
  IF Len(t.logs) > 0 /\ t.logs[Len(t.logs)].start # 0 /\ t.logs[Len(t.logs)].end = 0
    THEN [ t EXCEPT !.logs[Len(t.logs)].end = now ]
    ELSE [ t EXCEPT !.logs = t.logs \o << [ start |-> now, end |-> now ] >> ]

\* Variant of stopWorkLogging: the end is set on the first entry, not the last.
stopWorkLoggingFirst(t) ==
  IF Len(t.logs) > 0
    THEN LET lastLog == t.logs[Len(t.logs)] IN
         IF lastLog.start # 0 /\ lastLog.end = 0
           THEN [ t EXCEPT !.logs[1].end = now ]
           ELSE t
    ELSE [ t EXCEPT !.logs = << [ start |-> now, end |-> now ] >> ]

stopWorkLogging(t) ==
  IF Len(t.logs) > 0
    THEN LET lastLog == t.logs[Len(t.logs)] IN
         IF lastLog.start # 0 /\ lastLog.end = 0
           THEN [ t EXCEPT !.logs[Len(t.logs)].end = now ]
           ELSE t
    ELSE [ t EXCEPT !.logs = << [ start |-> now, end |-> now ] >> ]

\* setState(next) followed by the persist effect of the next render.
setState(next) ==
  /\ state' = next
  /\ storage' = Stringify(next)
  /\ rows' = IF Viewed THEN Render(rows, next.tasks, now) ELSE rows

\* A key press that leaves the state object alone: no render, no effect.
noSetState == UNCHANGED << state, storage, rows >>

\* Whether a task has this id.
Exists(tasks, id) == \E i \in DOMAIN tasks : tasks[i].id = id

\* The task with this id (the first one, as a scan of the list finds it).
TaskOf(tasks, id) ==
  tasks[CHOOSE i \in DOMAIN tasks :
          /\ tasks[i].id = id
          /\ \A j \in DOMAIN tasks : tasks[j].id = id => i <= j]

\* The status of the task with this id, "NONE" when there is none.
StatusOf(tasks, id) ==
  IF Exists(tasks, id) THEN TaskOf(tasks, id).status ELSE "NONE"

\* ---------------------------------------------------------------- history
\* The case labels of the switch, by command.
MoveLabels == { <<"m","v">>, <<"m","o","v","e">> }
BeginLabels == { <<"b">>, <<"b","e","g","i","n">> }
CheckLabels == { <<"c">>, <<"c","h","e","c","k">> }
DeleteLabels == { <<"d">>, <<"d","e","l","e","t","e">> }
FlagLabels == { <<"f","l">>, <<"f","l","a","g">> }
StopLabels == { <<"s","t">>, <<"s","t","o","p">> }
TaskLabels == { <<"t">>, <<"t","a","s","k">> }
EditLabels == { <<"e">>, <<"e","d","i","t">> }
HelpLabels == { <<"h","e","l","p">> }
CloseHelpLabels == { <<"c","l","o","s","e","-","h","e","l","p">> }
TodayLabels == { <<"t","o","d","a","y">> }

\* The labels of the cases that read cmd.id.
IdLabels ==
  MoveLabels \cup BeginLabels \cup CheckLabels \cup DeleteLabels
    \cup FlagLabels \cup StopLabels \cup EditLabels

\* The lines of the end-to-end scenario.
Scenario == << LineTaskWork, LineBegin1, LineCheck1, LineCheck1, LineDelete1 >>

\* Whether this run records the key press in last.
Recorded(k) ==
  CASE history = "toggle" -> k.label \in CheckLabels \cup FlagLabels
    [] history = "begin" -> k.label \in BeginLabels
    [] history = "stop" -> k.label \in StopLabels
    [] history = "missing" -> /\ k.label \in IdLabels
                              /\ ~Exists(state.tasks, k.cmd.id)
    [] history = "parse" -> k.input \in MalformedLines
    [] OTHER -> FALSE

\* The history variables after key press k has been handled; installed tells whether
\* the handler called setState.
Observe(k, installed) ==
  /\ last' = IF Recorded(k)
               THEN [ command |-> k.label,
                      id |-> k.cmd.id,
                      pre |-> StatusOf(state.tasks, k.cmd.id),
                      installed |-> installed,
                      input |-> k.input ]
               ELSE NoLast
  /\ scen' = IF history # "scenario" THEN scen
             ELSE IF scen >= 0 /\ scen < Len(Scenario) /\ k.input = Scenario[scen + 1]
               THEN scen + 1
             ELSE -1
  /\ UNCHANGED history

\* The page is on screen and the effects of its last render have run, so a
\* key press can be handled.
Ready ==
  /\ Rendered(state)
  /\ storage = Stringify(state)

\* Whether this run types the line of k: the malformed lines are typed only by
\* the run that records them.
Typed(k) == k.listed \/ history = "parse"

\* cmd.command.toLowerCase() is one of the case labels.
IsCase(k, labels) ==
  /\ k.label \in labels
  /\ k.cmd # Null
  /\ Typed(k)
  /\ Ready

\* ---------------------------------------------------------------- onKeyPress
\* Each action is onKeyPress for an Enter key press k (key === 13), for one case
\* of the switch.

\* case "mv", "move"
moveTask(t, cmd) == [ t EXCEPT !.tag = cmd.tag ]

Move(k) ==
  LET cmd == k.cmd
      updated == [ i \in DOMAIN state.tasks |-> moveTask(state.tasks[i], cmd) ] IN
  /\ IsCase(k, MoveLabels)
  /\ setState([ state EXCEPT !.tasks = MapTarget(state.tasks, cmd.id, updated) ])
  /\ Observe(k, TRUE)
  /\ UNCHANGED << now, assigned >>

\* case "b", "begin"
\* Variant of beginTask: the test of the status is missing.
beginTaskAlways(t) ==
  [ t EXCEPT !.status = "WIP",
             !.logs = t.logs \o << [ start |-> now, end |-> 0 ] >> ]

beginTask(t) ==
  IF t.status # "WIP"
    THEN [ t EXCEPT !.status = "WIP",
                    !.logs = t.logs \o << [ start |-> now, end |-> 0 ] >> ]
    ELSE t

Begin(k) ==
  LET cmd == k.cmd
      updated == [ i \in DOMAIN state.tasks |-> beginTask(state.tasks[i]) ] IN
  /\ IsCase(k, BeginLabels)
  /\ \A i \in DOMAIN state.tasks :
       (state.tasks[i].id = cmd.id /\ state.tasks[i].status # "WIP")
         => Len(state.tasks[i].logs) < MaxLogs
  /\ setState([ state EXCEPT !.tasks = MapTarget(state.tasks, cmd.id, updated) ])
  /\ Observe(k, TRUE)
  /\ UNCHANGED << now, assigned >>

\* case "c", "check"
\* Variant of checkTask: stopWorkLogging is never called.
checkTaskNoStop(t) ==
  [ t EXCEPT !.status = IF t.status = "DONE" THEN "WAIT" ELSE "DONE" ]

checkTask(t) ==
  LET u == [ t EXCEPT !.status = IF t.status = "DONE" THEN "WAIT" ELSE "DONE" ] IN
  IF u.status = "DONE" THEN stopWorkLogging(u) ELSE u

Check(k) ==
  LET cmd == k.cmd
      updated == [ i \in DOMAIN state.tasks |-> checkTask(state.tasks[i]) ] IN
  /\ IsCase(k, CheckLabels)
  /\ setState([ state EXCEPT !.tasks = MapTarget(state.tasks, cmd.id, updated) ])
  /\ Observe(k, TRUE)
  /\ UNCHANGED << now, assigned >>

\* case "d", "delete"
Delete(k) ==
  LET cmd == k.cmd IN
  /\ IsCase(k, DeleteLabels)
  /\ setState([ state EXCEPT !.tasks = Without(state.tasks, cmd.id) ])
  /\ Observe(k, TRUE)
  /\ UNCHANGED << now, assigned >>

\* case "fl", "flag"
\* Variant of flagTask: the status is set to FLAG, never back to WAIT.
flagTaskOneWay(t) == stopWorkLogging([ t EXCEPT !.status = "FLAG" ])

\* Variant of flagTask: stopWorkLogging is never called.
flagTaskNoStop(t) ==
  [ t EXCEPT !.status = IF t.status = "FLAG" THEN "WAIT" ELSE "FLAG" ]

flagTask(t) ==
  stopWorkLogging([ t EXCEPT !.status = IF t.status = "FLAG" THEN "WAIT" ELSE "FLAG" ])

Flag(k) ==
  LET cmd == k.cmd
      updated == [ i \in DOMAIN state.tasks |-> flagTask(state.tasks[i]) ] IN
  /\ IsCase(k, FlagLabels)
  /\ setState([ state EXCEPT !.tasks = MapTarget(state.tasks, cmd.id, updated) ])
  /\ Observe(k, TRUE)
  /\ UNCHANGED << now, assigned >>

\* case "st", "stop"
\* Variant of stopTask: the status becomes WAIT but the Worklog stays open.
stopTaskNoClose(t) ==
  IF t.status = "WIP" THEN [ t EXCEPT !.status = "WAIT" ] ELSE t

\* Variant of stopTask: the test of the status is missing.
stopTaskAlways(t) == stopWorkLogging([ t EXCEPT !.status = "WAIT" ])

stopTask(t) ==
  IF t.status = "WIP"
    THEN stopWorkLogging([ t EXCEPT !.status = "WAIT" ])
    ELSE t

Stop(k) ==
  LET cmd == k.cmd
      updated == [ i \in DOMAIN state.tasks |-> stopTask(state.tasks[i]) ] IN
  /\ IsCase(k, StopLabels)
  /\ setState([ state EXCEPT !.tasks = MapTarget(state.tasks, cmd.id, updated) ])
  /\ Observe(k, TRUE)
  /\ UNCHANGED << now, assigned >>

\* case "t", "task"
Uncategorized == <<"@","u","n","c","a","t","e","g","o","r","i","z","e","d">>

\* Variant of nextId: the number of tasks plus one.
nextIdByLength(tasks) == Len(tasks) + 1

\* nextId + 1 of the task case.
nextId(tasks) == MaxId(tasks) + 1

\* Variant of newTask: the tag is taken as given, with no default.
newTaskNoDefault(tasks, cmd) ==
  [ id |-> nextId(tasks),
    tag |-> cmd.tag,
    title |-> cmd.text,
    status |-> "WAIT",
    logs |-> <<>> ]

\* The new TaskItem. The code leaves logs out; every reader of logs
\* (t.logs || [], t.logs && t.logs.length) treats absent and empty alike, so
\* absent is the empty list here.
newTask(tasks, cmd) ==
  [ id |-> nextId(tasks),
    tag |-> IF cmd.tag # <<>> THEN cmd.tag ELSE Uncategorized,
    title |-> cmd.text,
    status |-> "WAIT",
    logs |-> <<>> ]

Task(k) ==
  LET cmd == k.cmd IN
  /\ IsCase(k, TaskLabels)
  /\ IF Len(cmd.text) > 0
       THEN /\ Len(state.tasks) < MaxTasks
            /\ history = "ids" => Len(assigned) < MaxCreated
            /\ setState([ state EXCEPT !.tasks = Append(state.tasks, newTask(state.tasks, cmd)) ])
            /\ assigned' = IF history = "ids"
                             THEN Append(assigned, nextId(state.tasks))
                             ELSE assigned
            /\ Observe(k, TRUE)
       ELSE /\ noSetState
            /\ UNCHANGED assigned
            /\ Observe(k, FALSE)
  /\ UNCHANGED now

\* case "e", "edit"
editTask(t, cmd) == [ t EXCEPT !.title = cmd.text ]

Edit(k) ==
  LET cmd == k.cmd
      updated == [ i \in DOMAIN state.tasks |-> editTask(state.tasks[i], cmd) ] IN
  /\ IsCase(k, EditLabels)
  /\ IF Len(cmd.text) > 0
       THEN /\ setState([ state EXCEPT !.tasks = MapTarget(state.tasks, cmd.id, updated) ])
            /\ Observe(k, TRUE)
       ELSE /\ noSetState
            /\ Observe(k, FALSE)
  /\ UNCHANGED << now, assigned >>

\* case "help"
Help(k) ==
  /\ IsCase(k, HelpLabels)
  /\ setState([ state EXCEPT !.showHelp = TRUE ])
  /\ Observe(k, TRUE)
  /\ UNCHANGED << now, assigned >>

\* case "close-help"
CloseHelp(k) ==
  /\ IsCase(k, CloseHelpLabels)
  /\ setState([ state EXCEPT !.showHelp = FALSE ])
  /\ Observe(k, TRUE)
  /\ UNCHANGED << now, assigned >>

\* case "today"
Today(k) ==
  /\ IsCase(k, TodayLabels)
  /\ setState([ state EXCEPT !.showToday = ~state.showToday ])
  /\ Observe(k, TRUE)
  /\ UNCHANGED << now, assigned >>

\* parseCommand returned null: the input box is cleared and nothing else.
NoCommand(k) ==
  /\ k.cmd = Null
  /\ Typed(k)
  /\ Ready
  /\ noSetState
  /\ Observe(k, FALSE)
  /\ UNCHANGED << now, assigned >>

\* The persist effect of the first render: localStorage.setItem.
FirstEffect ==
  /\ Rendered(state)
  /\ storage # Stringify(state)
  /\ storage' = Stringify(state)
  /\ UNCHANGED << state, now, history, assigned, last, scen, rows >>

\* Time passes between key presses: one delay, at the end of which the timer of
\* every TimeSpent instance whose delay is not 0 runs its callback.
ClockAdvance ==
  /\ Ready
  /\ now < MaxTime * Delay
  /\ now' = now + Delay
  /\ rows' = [ key \in DOMAIN rows |-> tick(rows[key]) ]
  /\ UNCHANGED << state, storage, history, assigned, last, scen >>

Next ==
  \/ FirstEffect
  \/ \E k \in AllKeyPresses :
       \/ Move(k)
       \/ Begin(k)
       \/ Check(k)
       \/ Delete(k)
       \/ Flag(k)
       \/ Stop(k)
       \/ Task(k)
       \/ Edit(k)
       \/ Help(k)
       \/ CloseHelp(k)
       \/ Today(k)
       \/ NoCommand(k)
  \/ ClockAdvance

\* The program, with no history recorded.
Spec == Init /\ [][Next]_vars

\* The same program, each recording one part of its past.
SpecIds == InitWith("ids") /\ [][Next]_vars
SpecScenario == InitWith("scenario") /\ [][Next]_vars
SpecToggle == InitWith("toggle") /\ [][Next]_vars
SpecBegin == InitWith("begin") /\ [][Next]_vars
SpecStop == InitWith("stop") /\ [][Next]_vars
SpecMissing == InitWith("missing") /\ [][Next]_vars
SpecParse == InitWith("parse") /\ [][Next]_vars

\* The same program with the task rows followed.
SpecView == InitWith("view") /\ [][Next]_vars

\* The stored States a page is opened with: the help closed and Today open; a
\* DONE task with one closed Worklog; a WIP task whose Worklog is open; a WAIT
\* task with two closed Worklogs.
SavedClosedHelp == [ tasks |-> <<>>, showHelp |-> FALSE, showToday |-> TRUE ]
SavedDone ==
  [ tasks |-> << [ id |-> 1, tag |-> Uncategorized, title |-> <<"f","i","x">>,
                   status |-> "DONE",
                   logs |-> << [ start |-> 1000, end |-> 4000 ] >> ] >>,
    showHelp |-> TRUE, showToday |-> FALSE ]
SavedWip ==
  [ tasks |-> << [ id |-> 1, tag |-> Uncategorized, title |-> <<"f","i","x">>,
                   status |-> "WIP",
                   logs |-> << [ start |-> 1000, end |-> 0 ] >> ] >>,
    showHelp |-> TRUE, showToday |-> FALSE ]
SavedWait ==
  [ tasks |-> << [ id |-> 1, tag |-> Uncategorized, title |-> <<"f","i","x">>,
                   status |-> "WAIT",
                   logs |-> << [ start |-> 1000, end |-> 2500 ],
                               [ start |-> 3000, end |-> 4000 ] >> ] >>,
    showHelp |-> TRUE, showToday |-> FALSE ]

\* The pages opened: the item found in localStorage and the time.
Visits ==
  { [ item |-> i, at |-> Delay ] :
      i \in { AbsentItem, EmptyText, BrokenText, Stringify(JsonNull),
               Stringify(JsonZero), Stringify(JsonEmptyObject),
               Stringify(SavedClosedHelp) } }
  \cup
  { [ item |-> Stringify(s), at |-> 6000 ] : s \in { SavedDone, SavedWip, SavedWait } }

\* The same program, opened with any of these items.
SpecLoad == InitFrom("view", Visits) /\ [][Next]_vars

\* The state is well formed.
TypeOK ==
  /\ Rendered(state)
  /\ state.showHelp \in BOOLEAN /\ state.showToday \in BOOLEAN
  /\ \A i \in DOMAIN state.tasks :
       /\ state.tasks[i].status \in TaskStatus
       /\ Len(state.tasks[i].logs) <= MaxLogs
  /\ now \in { n * Delay : n \in 1..MaxTime }
  /\ storage \in { AbsentItem, Stringify(state) }

\* ---------------------------------------------------------------- properties
\* The indices of the open Worklogs of task t (end absent is end 0 here).
OpenLogs(t) == { n \in DOMAIN t.logs : t.logs[n].end = 0 }

\* The ids of the tasks of a list.
Ids(tasks) == { tasks[i].id : i \in DOMAIN tasks }

\* C1: after any sequence of commands from the empty default state, every task
\* has at most one Worklog whose end is open.
C1_AtMostOneOpenLog ==
  \A i \in DOMAIN state.tasks : Cardinality(OpenLogs(state.tasks[i])) <= 1

\* C1 witness: a task that was begun, stopped and begun again: two Worklogs,
\* the first closed and the second open.
C1_Witness ==
  \E i \in DOMAIN state.tasks :
    /\ Len(state.tasks[i].logs) = 2
    /\ state.tasks[i].logs[1].end # 0
    /\ state.tasks[i].logs[2].end = 0

\* C2 as claimed: the ids assigned by N task commands are exactly 1..N.
C2_IdsNeverReused ==
  { assigned[n] : n \in DOMAIN assigned } = 1..Len(assigned)

\* C2 as amended: a task command gives the new task an id that is one more than
\* the largest id in the list at that moment (1 for an empty list), so larger
\* than every id in the list, and appends it; the n-th assigned id is in 1..n.
C2_NewIdAboveExisting ==
  [][ /\ \A n \in DOMAIN assigned' : assigned'[n] \in 1..n
      /\ Len(assigned') > Len(assigned) =>
           LET id == assigned'[Len(assigned')] IN
           /\ \A j \in Ids(state.tasks) : j < id
           /\ state.tasks = <<>> => id = 1
           /\ state.tasks # <<>> => (id - 1) \in Ids(state.tasks)
           /\ Len(state'.tasks) = Len(state.tasks) + 1
           /\ SubSeq(state'.tasks, 1, Len(state.tasks)) = state.tasks
           /\ state'.tasks[Len(state'.tasks)].id = id
    ]_vars

\* C2 witness: three task commands with a delete in between, the deleted id
\* given again.
C2_Witness ==
  /\ Len(assigned) = 3
  /\ Len(state.tasks) = 2
  /\ \E m, n \in DOMAIN assigned : m < n /\ assigned[m] = assigned[n]

\* C3: the end-to-end scenario, step by step, from the empty state.
C3_Scenario ==
  [][ /\ (scen = 0 /\ scen' = 1) =>
           state'.tasks = << [ id |-> 1,
                               tag |-> <<"@","w","o","r","k">>,
                               title |-> <<"W","r","i","t","e"," ","s","p","e","c">>,
                               status |-> "WAIT",
                               logs |-> <<>> ] >>
      /\ (scen = 1 /\ scen' = 2) =>
           /\ Len(state'.tasks) = 1
           /\ state'.tasks[1].status = "WIP"
           /\ Len(state'.tasks[1].logs) = 1
           /\ state'.tasks[1].logs[1].end = 0
      /\ (scen = 2 /\ scen' = 3) =>
           /\ Len(state'.tasks) = 1
           /\ state'.tasks[1].status = "DONE"
           /\ Len(state'.tasks[1].logs) = 1
           /\ state'.tasks[1].logs[1].start = state.tasks[1].logs[1].start
           /\ state'.tasks[1].logs[1].end # 0
      /\ (scen = 3 /\ scen' = 4) =>
           /\ Len(state'.tasks) = 1
           /\ state'.tasks[1].status = "WAIT"
           /\ state'.tasks[1].logs = state.tasks[1].logs
      /\ (scen = 4 /\ scen' = 5) => state'.tasks = <<>>
    ]_vars

\* C3 witness: the whole scenario has run.
C3_Witness == scen = 5 /\ state.tasks = <<>>

\* C4: a task's logs are append-only: a step keeps every Worklog in place with
\* its start, changes no end that was set, and sets an end only on the entry
\* that was last.
C4_LogsAppendOnly ==
  [][ \A i \in DOMAIN state.tasks : \A j \in DOMAIN state'.tasks :
        state.tasks[i].id = state'.tasks[j].id =>
          LET old == state.tasks[i].logs
              new == state'.tasks[j].logs IN
          /\ Len(new) >= Len(old)
          /\ \A n \in DOMAIN old :
               /\ new[n].start = old[n].start
               /\ old[n].end # 0 => new[n].end = old[n].end
               /\ new[n].end # old[n].end => n = Len(old)
    ]_vars

\* C4 witness: a task with two Worklogs, both closed, the first before now.
C4_Witness ==
  \E i \in DOMAIN state.tasks :
    /\ Len(state.tasks[i].logs) = 2
    /\ state.tasks[i].logs[1].end # 0
    /\ state.tasks[i].logs[1].end < now
    /\ state.tasks[i].logs[2].end # 0

\* The step is a recorded check of an existing task that was not DONE.
CheckOfNotDone ==
  /\ last' # last
  /\ last'.command \in CheckLabels
  /\ last'.pre \notin { "DONE", "NONE" }

\* The logs of old with every open Worklog closed at now.
ClosedAtNow(old) ==
  [ n \in DOMAIN old |->
      IF old[n].end = 0 THEN [ old[n] EXCEPT !.end = now ] ELSE old[n] ]

\* C5 as claimed: check of a task that is not DONE makes it DONE and closes its
\* open Worklog, or appends a zero-length closed Worklog when none is open.
C5_CheckAppendsWhenNoneOpen ==
  [][ CheckOfNotDone =>
        LET old == TaskOf(state.tasks, last'.id)
            new == TaskOf(state'.tasks, last'.id) IN
        /\ new.status = "DONE"
        /\ new.logs = IF OpenLogs(old) # {}
                        THEN ClosedAtNow(old.logs)
                        ELSE Append(old.logs, [ start |-> now, end |-> now ])
    ]_vars

\* C5 as amended: check of a task that is not DONE makes it DONE and closes its
\* open Worklog; a task with no Worklog at all gets one zero-length closed
\* Worklog; a task whose Worklogs are all closed keeps its logs as they are.
C5_CheckClosesOrRecordsFirst ==
  [][ CheckOfNotDone =>
        LET old == TaskOf(state.tasks, last'.id)
            new == TaskOf(state'.tasks, last'.id) IN
        /\ new.status = "DONE"
        /\ new.logs = IF OpenLogs(old) # {} THEN ClosedAtNow(old.logs)
                      ELSE IF old.logs = <<>>
                        THEN << [ start |-> now, end |-> now ] >>
                      ELSE old.logs
    ]_vars

\* C5 witness: the last key press checked a task that was WAIT and had a closed
\* Worklog from before: it is DONE and its logs end before now.
C5_Witness ==
  /\ last.command \in CheckLabels
  /\ last.pre = "WAIT"
  /\ Exists(state.tasks, last.id)
  /\ LET t == TaskOf(state.tasks, last.id) IN
     /\ t.status = "DONE"
     /\ Len(t.logs) = 1
     /\ t.logs[1].end # 0
     /\ t.logs[1].end < now

\* C6: begin of a task that is already WIP leaves its status and its logs
\* unchanged.
C6_BeginOnWipIsNoOp ==
  [][ (last'.command \in BeginLabels /\ last'.pre = "WIP") =>
        LET old == TaskOf(state.tasks, last'.id)
            new == TaskOf(state'.tasks, last'.id) IN
        /\ Exists(state'.tasks, last'.id)
        /\ new.status = "WIP"
        /\ new.logs = old.logs
    ]_vars

\* C6 witness: the last key press was a begin of a task that was WIP.
C6_Witness ==
  /\ last.command \in BeginLabels
  /\ last.pre = "WIP"
  /\ Exists(state.tasks, last.id)
  /\ Cardinality(OpenLogs(TaskOf(state.tasks, last.id))) = 1

\* The step ends with a recorded stop of an existing task that was not WIP.
StopOfNotWip ==
  /\ last'.command \in StopLabels
  /\ last'.pre \notin { "WIP", "NONE" }

\* C7 as claimed: stop of a task that is not WIP installs no new state value,
\* persists nothing and changes no field.
C7_StopOnNotWipSameReference ==
  [][ StopOfNotWip =>
        /\ ~last'.installed
        /\ state' = state
        /\ storage' = storage
    ]_vars

\* C7 as amended: stop of a task that is not WIP changes no field of the state,
\* but it does install a new state value, equal to the old one, and that value
\* is persisted again.
C7_StopOnNotWipSameValue ==
  [][ StopOfNotWip =>
        /\ last'.installed
        /\ state' = state
        /\ storage' = Stringify(state)
    ]_vars

\* C7 witness: the last key press was a stop of a DONE task.
C7_Witness ==
  /\ last.command \in StopLabels
  /\ last.pre = "DONE"
  /\ StatusOf(state.tasks, last.id) = "DONE"

\* C8: two checks in a row of a task that was WAIT leave it WAIT, and so do two
\* flags in a row.
C8_ToggleTwice ==
  [][ \A labels \in { CheckLabels, FlagLabels } :
        ( /\ last.command \in labels
          /\ last.pre = "WAIT"
          /\ last' # last
          /\ last'.command \in labels
          /\ last'.id = last.id )
        => StatusOf(state'.tasks, last.id) = "WAIT"
    ]_vars

\* C8 witness: the last key press flagged a task that was FLAG and had been
\* flagged at an earlier time: it is WAIT again.
C8_Witness ==
  /\ last.command \in FlagLabels
  /\ last.pre = "FLAG"
  /\ StatusOf(state.tasks, last.id) = "WAIT"
  /\ TaskOf(state.tasks, last.id).logs = << [ start |-> Delay, end |-> Delay ] >>
  /\ now > Delay

\* C9: a begin, check, delete, flag, stop, edit or move whose id matches no task
\* leaves the task list, showHelp and showToday unchanged.
C9_MissingIdIsNoOp ==
  [][ (last'.command \in IdLabels /\ last'.pre = "NONE") => state' = state ]_vars

\* C9 witness: the last key press named an id that no task of a non-empty list
\* has.
C9_Witness ==
  /\ last.command \in IdLabels
  /\ last.pre = "NONE"
  /\ state.tasks # <<>>
  /\ ~Exists(state.tasks, last.id)

\* C10: all task ids are positive and pairwise distinct.
C10_IdsPositiveDistinct ==
  /\ \A i \in DOMAIN state.tasks : state.tasks[i].id >= 1
  /\ \A i, j \in DOMAIN state.tasks :
       state.tasks[i].id = state.tasks[j].id => i = j

\* C10 witness: two tasks, the first one created second (the task with id 1 was
\* deleted).
C10_Witness ==
  /\ Len(state.tasks) = 2
  /\ state.tasks[1].id = 2

\* The tag and the title each task line with text gives; the task lines
\* whose text is empty once trimmed.
TaskLinesWithText ==
  { [ line |-> LineTaskWork, tag |-> <<"@","w","o","r","k">>,
      title |-> <<"W","r","i","t","e"," ","s","p","e","c">> ],
    [ line |-> LineTaskFix, tag |-> <<"@","u","n","c","a","t","e","g","o","r","i","z","e","d">>,
      title |-> <<"f","i","x">> ] }
TaskLinesWithoutText == { LineTaskEmpty, LineTaskBlank }

\* The key presses of the task lines.
TaskKeyPresses == { k \in KeyPresses : k.label \in TaskLabels }

\* C11: a task command whose trimmed text is not empty appends one task after
\* all the others: WAIT, no logs, an id one above the largest id of the list (1
\* for an empty list), the tag given or @uncategorized; a task command whose
\* trimmed text is empty leaves the state unchanged.
C11_TaskCreation ==
  [][ \A k \in TaskKeyPresses : Task(k) =>
        /\ k.input \in { c.line : c \in TaskLinesWithText } \cup TaskLinesWithoutText
        /\ \A c \in TaskLinesWithText : k.input = c.line =>
             /\ Len(state'.tasks) = Len(state.tasks) + 1
             /\ SubSeq(state'.tasks, 1, Len(state.tasks)) = state.tasks
             /\ state'.showHelp = state.showHelp
             /\ state'.showToday = state.showToday
             /\ LET new == state'.tasks[Len(state'.tasks)] IN
                /\ new.status = "WAIT"
                /\ new.logs = <<>>
                /\ new.tag = c.tag
                /\ new.title = c.title
                /\ \A i \in DOMAIN state.tasks : state.tasks[i].id < new.id
                /\ state.tasks = <<>> => new.id = 1
                /\ state.tasks # <<>> => (new.id - 1) \in Ids(state.tasks)
        /\ k.input \in TaskLinesWithoutText =>
             /\ state' = state
             /\ storage' = storage
    ]_vars

\* C11 witness: a task created without a tag after the task with id 1 was
\* deleted: it comes last, with id 3, after a task that is being worked on.
C11_Witness ==
  /\ Len(state.tasks) = 2
  /\ state.tasks[1].id = 2
  /\ state.tasks[1].status = "WIP"
  /\ state.tasks[2] = [ id |-> 3,
                        tag |-> <<"@","u","n","c","a","t","e","g","o","r","i","z","e","d">>,
                        title |-> <<"f","i","x">>,
                        status |-> "WAIT",
                        logs |-> <<>> ]

\* Whether a JSON value has the fields of a State.
IsState(v) == DOMAIN v = { "tasks", "showHelp", "showToday" }

\* C12: when the page opens with no stored item, or with one that is not the
\* JSON text of a State, the initial state is the default state and the page
\* renders; a stored State is the initial state. (After the first persist effect
\* the item is the JSON text of the state.)
C12_LoadFallsBack ==
  /\ Rendered(state)
  /\ IF storage.kind = "json" /\ IsState(storage.value)
       THEN state = storage.value
       ELSE state = DefaultState

\* C13: a timer tick changes no field of the state and nothing in storage, and
\* when no task is WIP it changes no counter either.
C13_TickLeavesTasksAlone ==
  [][ now' # now =>
        /\ state' = state
        /\ storage' = storage
        /\ (\A i \in DOMAIN state.tasks : state.tasks[i].status # "WIP")
             => rows' = rows
    ]_vars

\* C13 witness: a tick has run between commands: one row has counted a second
\* for a task that is WIP, next to a row whose timer is off.
C13_Witness ==
  /\ now > Delay
  /\ \E a, b \in DOMAIN rows :
       /\ rows[a].delay = Delay
       /\ rows[a].counter = [ s |-> 1, ms |-> 0 ]
       /\ TaskAt(state.tasks, a).status = "WIP"
       /\ rows[b].delay = 0
       /\ rows[b].counter = [ s |-> 0, ms |-> 0 ]

\* The sum of f over the set S of its arguments.
RECURSIVE SumOver(_, _)
SumOver(f, S) ==
  IF S = {} THEN 0
  ELSE LET x == CHOOSE y \in S : TRUE IN f[x] + SumOver(f, S \ { x })

\* C14: the seconds shown for a task are the sum over its logs of
\* (end if closed, else now) - start, after every tick and every command.
C14_CounterIsRecomputation ==
  \A key \in DOMAIN rows :
    LET logs == TaskAt(state.tasks, key).logs
        spent == [ n \in DOMAIN logs |->
                     (IF logs[n].end # 0 THEN logs[n].end ELSE now) - logs[n].start ]
    IN rows[key].counter.s * 1000 + rows[key].counter.ms = SumOver(spent, DOMAIN logs)

\* C15: the elapsed time of a task is, in seconds, the sum of end - start over
\* its closed logs plus now - start for its open log: 3 seconds for one log from
\* 1000 to 4000, 5 seconds for one open log started 5000 ms before now; with no
\* open log it does not depend on now.
C15_ElapsedTime ==
  Rendered(state) =>
    \A i \in DOMAIN state.tasks :
      LET logs == state.tasks[i].logs
          closed == { n \in DOMAIN logs : logs[n].end # 0 }
          open == DOMAIN logs \ closed
          elapsed == Seconds(totalTime(logs, now))
          closedSpent == [ n \in closed |-> logs[n].end - logs[n].start ]
          openSpent == [ n \in open |-> now - logs[n].start ]
      IN /\ elapsed.ms \in 0..999
         /\ elapsed.s * 1000 + elapsed.ms
              = SumOver(closedSpent, closed) + SumOver(openSpent, open)
         /\ logs = << [ start |-> 1000, end |-> 4000 ] >>
              => elapsed = [ s |-> 3, ms |-> 0 ]
         /\ logs = << [ start |-> now - 5000, end |-> 0 ] >>
              => elapsed = [ s |-> 5, ms |-> 0 ]
         /\ open = {} => Seconds(totalTime(logs, now + Delay)) = elapsed

\* C15 witness: a task whose one log was started 5000 ms ago and is open, next
\* to a task begun just now.
C15_Witness ==
  /\ Rendered(state)
  /\ Len(state.tasks) = 2
  /\ state.tasks[1].logs = << [ start |-> now - 5000, end |-> 0 ] >>
  /\ state.tasks[2].logs = << [ start |-> now, end |-> 0 ] >>

\* C16: Today marks an entry finished exactly when it is the entry of the final
\* log of a task that is DONE; the final log of a DONE task is closed, so the
\* test of the end changes nothing.
C16_FinishedIsFinalLogOfDone ==
  /\ \A i \in DOMAIN state.tasks :
       LET t == state.tasks[i] IN
       /\ Len(works(t, now)) = Len(t.logs)
       /\ \A n \in DOMAIN t.logs :
            /\ works(t, now)[n].start = t.logs[n].start
            /\ works(t, now)[n].done <=> (n = Len(t.logs) /\ t.status = "DONE")
       /\ (t.status = "DONE" /\ t.logs # <<>>) => t.logs[Len(t.logs)].end # 0
  /\ LET list == today(state.tasks, now) IN
     /\ Cardinality({ n \in DOMAIN list : list[n].done })
          = Cardinality({ i \in DOMAIN state.tasks :
                            state.tasks[i].status = "DONE" /\ state.tasks[i].logs # <<>> })
     /\ \A n \in DOMAIN list : list[n].done =>
          \E i \in DOMAIN state.tasks :
            /\ state.tasks[i].status = "DONE"
            /\ state.tasks[i].title = list[n].task
            /\ state.tasks[i].logs[Len(state.tasks[i].logs)].start = list[n].start

\* C16 witness: a DONE task with two logs, of which Today marks the second and
\* only the second, and a WIP task whose open log is not marked.
C16_Witness ==
  /\ Len(state.tasks) = 2
  /\ state.tasks[1].status = "DONE"
  /\ Len(state.tasks[1].logs) = 2
  /\ state.tasks[2].status = "WIP"
  /\ Len(today(state.tasks, now)) = 3
  /\ Cardinality({ n \in DOMAIN today(state.tasks, now) :
                     today(state.tasks, now)[n].done }) = 1

\* C17: a line of a verb that reads an id, with an id that is not a decimal
\* number, matches no grammar: parseCommand returns null.
C17_MalformedIdIsNull ==
  last.input \in MalformedLines => (last.command = <<>> /\ last.id = NoId)

\* C18: a task has an open Worklog exactly when it is WIP, and the open Worklog
\* is the last of its logs; a step that takes a task out of WIP closes that
\* Worklog with end = now and changes nothing else in its logs.
C18_OpenLogIffWip ==
  /\ [](\A i \in DOMAIN state.tasks :
          LET t == state.tasks[i] IN
          /\ (OpenLogs(t) # {}) <=> (t.status = "WIP")
          /\ OpenLogs(t) \subseteq { Len(t.logs) })
  /\ [][ \A i \in DOMAIN state.tasks : \A j \in DOMAIN state'.tasks :
           ( /\ state.tasks[i].id = state'.tasks[j].id
             /\ state.tasks[i].status = "WIP"
             /\ state'.tasks[j].status # "WIP" )
           => /\ state.tasks[i].logs # <<>>
              /\ state'.tasks[j].logs =
                   [ state.tasks[i].logs EXCEPT ![Len(state.tasks[i].logs)].end = now ]
       ]_vars

\* C18 witness: a task that was flagged while WIP, its Worklog closed at now
\* after one delay of work, next to a task that is WIP with its Worklog open.
C18_Witness ==
  /\ Len(state.tasks) = 2
  /\ now = 2 * Delay
  /\ state.tasks[1].status = "FLAG"
  /\ state.tasks[1].logs = << [ start |-> Delay, end |-> now ] >>
  /\ state.tasks[2].status = "WIP"
  /\ state.tasks[2].logs[Len(state.tasks[2].logs)].end = 0

\* The tasks of a list whose id is not id, in order.
Others(tasks, id) ==
  LET other(t) == t.id # id IN SelectSeq(tasks, other)

\* The key presses of the lines that name an id, by command.
MoveKeyPresses == { k \in KeyPresses : k.label \in MoveLabels }
BeginKeyPresses == { k \in KeyPresses : k.label \in BeginLabels }
CheckKeyPresses == { k \in KeyPresses : k.label \in CheckLabels }
DeleteKeyPresses == { k \in KeyPresses : k.label \in DeleteLabels }
FlagKeyPresses == { k \in KeyPresses : k.label \in FlagLabels }
StopKeyPresses == { k \in KeyPresses : k.label \in StopLabels }
EditKeyPresses == { k \in KeyPresses : k.label \in EditLabels }

\* Every task with another id is as it was and in the same order, and showHelp
\* and showToday are as they were.
OthersKept(id) ==
  /\ Others(state'.tasks, id) = Others(state.tasks, id)
  /\ state'.showHelp = state.showHelp
  /\ state'.showToday = state.showToday

\* Every task is in its place, with its id.
PlacesKept ==
  /\ Len(state'.tasks) = Len(state.tasks)
  /\ \A i \in DOMAIN state.tasks : state'.tasks[i].id = state.tasks[i].id

\* C19: a command that reads an id leaves every task with another id as it was
\* and in the same order, and leaves showHelp and showToday alone; all but
\* delete keep every task in its place; move changes only the tag of its
\* target, edit only the title and only when the trimmed text is not empty,
\* delete only removes its target. (A step that leaves the state as it was
\* changes no task, whatever the command.)
C19_OnlyTheTargetChanges ==
  [][ state' # state =>
      /\ \A k \in BeginKeyPresses : Begin(k) => (OthersKept(k.cmd.id) /\ PlacesKept)
      /\ \A k \in CheckKeyPresses : Check(k) => (OthersKept(k.cmd.id) /\ PlacesKept)
      /\ \A k \in FlagKeyPresses : Flag(k) => (OthersKept(k.cmd.id) /\ PlacesKept)
      /\ \A k \in StopKeyPresses : Stop(k) => (OthersKept(k.cmd.id) /\ PlacesKept)
      /\ \A k \in MoveKeyPresses : Move(k) =>
           /\ OthersKept(k.cmd.id)
           /\ PlacesKept
           /\ \A i \in DOMAIN state.tasks :
                /\ state'.tasks[i] =
                     [ state.tasks[i] EXCEPT !.tag = state'.tasks[i].tag ]
                /\ (k.input = LineMove1 /\ state.tasks[i].id = 1)
                     => state'.tasks[i].tag = <<"@","w","o","r","k">>
      /\ \A k \in EditKeyPresses : Edit(k) =>
           /\ k.input # LineEditEmpty
           /\ OthersKept(k.cmd.id)
           /\ PlacesKept
           /\ \A i \in DOMAIN state.tasks :
                /\ state'.tasks[i] =
                     [ state.tasks[i] EXCEPT !.title = state'.tasks[i].title ]
                /\ (k.input = LineEdit1 /\ state.tasks[i].id = 1)
                     => state'.tasks[i].title = <<"f","i","x">>
      /\ \A k \in DeleteKeyPresses : Delete(k) =>
           /\ OthersKept(k.cmd.id)
           /\ ~Exists(state'.tasks, k.cmd.id)
           /\ state'.tasks = Others(state.tasks, k.cmd.id)
    ]_vars

\* C19 witness: two tasks are WIP at once, the first one moved and edited while
\* it was worked on.
C19_Witness ==
  /\ Len(state.tasks) = 2
  /\ state.tasks[1].status = "WIP"
  /\ state.tasks[2].status = "WIP"
  /\ state.tasks[1].tag = <<"@","w","o","r","k">>
  /\ state.tasks[1].title = <<"f","i","x">>
  /\ state.tasks[2].title = <<"W","r","i","t","e"," ","s","p","e","c">>

\* C20: the logs of every task are in the order of time and do not overlap: a
\* closed Worklog has start <= end, and a Worklog that another follows is
\* closed, with its end <= the start of the next.
C20_LogsChronological ==
  \A i \in DOMAIN state.tasks :
    LET logs == state.tasks[i].logs IN
    \A n \in DOMAIN logs :
      /\ logs[n].start > 0
      /\ logs[n].end # 0 => logs[n].start <= logs[n].end
      /\ n < Len(logs) =>
           /\ logs[n].end # 0
           /\ logs[n].end <= logs[n + 1].start

\* C20 witness: a task worked on twice, for one delay and then again from the
\* moment it was stopped.
C20_Witness ==
  \E i \in DOMAIN state.tasks :
    LET logs == state.tasks[i].logs IN
    /\ Len(logs) = 2
    /\ logs[1].start < logs[1].end
    /\ logs[1].end = logs[2].start
    /\ logs[2].end # 0

====
